---------------------------- MODULE Spec2Model ----------------------------
(***************************************************************************)
(* Model of the audio delay meter filter (src/src/audio-delay-meter.c):    *)
(* the two ring buffers, the snapshot and conditioning pipeline, the       *)
(* bounded-lag correlation search, the result record and its hand-off to   *)
(* the UI thread, the target binding, and the lock dm->lock.               *)
(*                                                                         *)
(* Numbers.  Samples are integers (units of full scale).  The conditioned  *)
(* snapshot is held in units of 1/(PreEmphDen * HannScale); the sums of    *)
(* the correlation are exact integers in those units and correlations are  *)
(* compared exactly, as fractions, with multi-limb naturals (TLC's         *)
(* integers are 32 bits wide).  Rounding of float/double is not modelled.  *)
(* The sample rate and the 1024-frame minimum are scaled down (SampleRate, *)
(* MinFrames) so that buffers of a few samples wrap and are searched.      *)
(***************************************************************************)
EXTENDS Integers, Sequences, FiniteSets, TLC

(***************************************************************************)
(* Program constants (the #defines and literals of the source).            *)
(***************************************************************************)
BUFFER_SECONDS == 5
MIN_WINDOW_MS == 200
MAX_WINDOW_MS == 3000
DEFAULT_WINDOW_MS == 1000
MAX_LAG_MS == 1500
MIN_LAG_MS == 50
\* MIN_CORR_THRESHOLD 0.6f as the fraction 3/5
MinCorrNum == 3
MinCorrDen == 5
\* PRE_EMPHASIS_ALPHA 0.95f as the fraction 19/20
PreEmphNum == 19
PreEmphDen == 20

(***************************************************************************)
(* Bounds of the model.                                                    *)
(***************************************************************************)
\* the host's sample rate in Hz (44100 or 48000 in a real host)
SampleRate == 2
\* stands for the 1024-frame minimum of copy_recent, perform_measure and
\* the per-lag overlap test
MinFrames == 3
\* frames that can be written beyond one full buffer, per stream
ExtraWrites == 3
\* largest number of frames one audio callback delivers
MaxChunk == 3

(***************************************************************************)
(* ms_to_samples                                                           *)
(***************************************************************************)
ms_to_samples(ms, sample_rate) == (ms * sample_rate + 500) \div 1000

capacity == ms_to_samples(BUFFER_SECONDS * 1000, SampleRate)

Min(a, b) == IF a < b THEN a ELSE b
Abs(a) == IF a < 0 THEN -a ELSE a

(***************************************************************************)
(* ring_write: buffers are functions on 0..capacity-1, src a sequence.     *)
(* The result is the buffer, cursor and count after the loop.              *)
(***************************************************************************)
\* ring_write with the count not saturated at the capacity
RECURSIVE ring_write_unsaturated(_, _, _, _, _)
ring_write_unsaturated(buffer, cap, pos, count, src) ==
    IF src = << >>
    THEN [buffer |-> buffer, pos |-> pos, count |-> count]
    ELSE ring_write_unsaturated([buffer EXCEPT ![pos] = Head(src)],
                                cap, (pos + 1) % cap, count + 1, Tail(src))

RECURSIVE ring_write(_, _, _, _, _)
ring_write(buffer, cap, pos, count, src) ==
    IF src = << >>
    THEN [buffer |-> buffer, pos |-> pos, count |-> count]
    ELSE ring_write([buffer EXCEPT ![pos] = Head(src)],
                    cap,
                    (pos + 1) % cap,
                    IF count < cap THEN count + 1 ELSE count,
                    Tail(src))

(***************************************************************************)
(* copy_recent, the copy loop: frames samples starting frames slots        *)
(* before the write cursor, as a sequence indexed from 1 (C index i is     *)
(* element i+1).                                                           *)
(***************************************************************************)
\* the copy started at the write cursor, the oldest slot, not frames before it
RecentStartAtCursor(pos, cap, frames) == pos % cap

RecentStart(pos, cap, frames) == (pos + cap - frames) % cap

RawCopy(buffer, pos, cap, frames) ==
    [i \in 1..frames |-> buffer[(RecentStart(pos, cap, frames) + (i - 1)) % cap]]

\* frames = min(available, window_frames) of copy_recent
SnapshotFrames(rc, tc, wms) ==
    Min(Min(rc, tc), ms_to_samples(wms, SampleRate))

(***************************************************************************)
(* Signal conditioning.  apply_pre_emphasis in units of 1/PreEmphDen:      *)
(* y[0] = x[0], y[i] = x[i] - alpha * x[i-1] with the original x[i-1].     *)
(***************************************************************************)
apply_pre_emphasis(data) ==
    [i \in 1..Len(data) |->
        IF i = 1 THEN PreEmphDen * data[1]
                 ELSE PreEmphDen * data[i] - PreEmphNum * data[i - 1]]

(***************************************************************************)
(* apply_hann_window.  The weight 0.5 * (1 - cos(2 pi i / (frames - 1)))   *)
(* in units of 1/HannScale, rounded to the nearest unit (exact for         *)
(* frames - 1 in {2, 3, 4, 6}); row n of the table is frames - 1 = n.      *)
(***************************************************************************)
HannScale == 4

HannTable ==
    << <<0, 0>>,
       <<0, 4, 0>>,
       <<0, 3, 3, 0>>,
       <<0, 2, 4, 2, 0>>,
       <<0, 1, 4, 4, 1, 0>>,
       <<0, 1, 3, 4, 3, 1, 0>>,
       <<0, 1, 2, 4, 4, 2, 1, 0>>,
       <<0, 1, 2, 3, 4, 3, 2, 1, 0>>,
       <<0, 0, 2, 3, 4, 4, 3, 2, 0, 0>>,
       <<0, 0, 1, 3, 4, 4, 4, 3, 1, 0, 0>>,
       <<0, 0, 1, 2, 3, 4, 4, 3, 2, 1, 0, 0>>,
       <<0, 0, 1, 2, 3, 4, 4, 4, 3, 2, 1, 0, 0>>,
       <<0, 0, 1, 2, 3, 3, 4, 4, 3, 3, 2, 1, 0, 0>>,
       <<0, 0, 1, 2, 2, 3, 4, 4, 4, 3, 2, 2, 1, 0, 0>> >>

\* weight of C index i (0-based) in a window of the given number of frames
HannWeight(i, frames) ==
    IF frames <= 1 THEN HannScale ELSE HannTable[frames - 1][i + 1]

apply_hann_window(data) ==
    [i \in 1..Len(data) |-> data[i] * HannWeight(i - 1, Len(data))]

\* the two conditioning calls copy_recent makes on one snapshot
Condition(raw) == apply_hann_window(apply_pre_emphasis(raw))

(***************************************************************************)
(* Naturals of any size, as little-endian sequences of limbs in base       *)
(* BigBase: the products of the correlation sums exceed 32 bits.           *)
(***************************************************************************)
BigBase == 100 * 100

Big(n) == << n % BigBase, (n \div BigBase) % BigBase, n \div (BigBase * BigBase) >>

RECURSIVE BigMulSmallC(_, _, _)
BigMulSmallC(a, d, carry) ==
    IF a = << >>
    THEN IF carry = 0 THEN << >> ELSE << carry >>
    ELSE LET v == Head(a) * d + carry
         IN  << v % BigBase >> \o BigMulSmallC(Tail(a), d, v \div BigBase)

RECURSIVE BigAddC(_, _, _)
BigAddC(a, b, carry) ==
    IF a = << >> /\ b = << >>
    THEN IF carry = 0 THEN << >> ELSE << carry >>
    ELSE LET x == IF a = << >> THEN 0 ELSE Head(a)
             y == IF b = << >> THEN 0 ELSE Head(b)
             v == x + y + carry
         IN  << v % BigBase >>
             \o BigAddC(IF a = << >> THEN a ELSE Tail(a),
                        IF b = << >> THEN b ELSE Tail(b),
                        v \div BigBase)

RECURSIVE BigMul(_, _)
BigMul(a, b) ==
    IF b = << >>
    THEN << >>
    ELSE BigAddC(BigMulSmallC(a, Head(b), 0), << 0 >> \o BigMul(a, Tail(b)), 0)

\* the limb of weight BigBase^(i-1), 0 beyond the end
BigLimb(a, i) == IF i <= Len(a) THEN a[i] ELSE 0

\* -1, 0, 1 as a < b, a = b, a > b, comparing from limb i downwards
RECURSIVE BigCmpFrom(_, _, _)
BigCmpFrom(a, b, i) ==
    IF i = 0 THEN 0
    ELSE IF BigLimb(a, i) < BigLimb(b, i) THEN -1
    ELSE IF BigLimb(a, i) > BigLimb(b, i) THEN 1
    ELSE BigCmpFrom(a, b, i - 1)

BigCmp(a, b) == BigCmpFrom(a, b, IF Len(a) > Len(b) THEN Len(a) ELSE Len(b))

(***************************************************************************)
(* A correlation value ab / sqrt(a2 * b2) is the record of its three sums. *)
(***************************************************************************)
Corr(ab, a2, b2) == [ab |-> ab, a2 |-> a2, b2 |-> b2]

\* best_corr = -1.0
MinusOne == Corr(-1, 1, 1)
\* MIN_CORR_THRESHOLD
\* no threshold: any correlation above the initial -1 is accepted
ThresholdNone == Corr(-1, 1, 1)

Threshold == Corr(MinCorrNum, MinCorrDen, MinCorrDen)

\* c.ab^2 * d.a2 * d.b2, the square of c cross-multiplied with d's denominator
CrossSquare(c, d) ==
    BigMul(BigMul(Big(Abs(c.ab)), Big(Abs(c.ab))), BigMul(Big(d.a2), Big(d.b2)))

\* value(c) > value(d)
CorrGT(c, d) ==
    IF c.ab >= 0 /\ d.ab < 0 THEN TRUE
    ELSE IF c.ab < 0 /\ d.ab >= 0 THEN FALSE
    ELSE IF c.ab >= 0 THEN BigCmp(CrossSquare(c, d), CrossSquare(d, c)) = 1
    ELSE BigCmp(CrossSquare(c, d), CrossSquare(d, c)) = -1

\* value(c) < value(d)
CorrLT(c, d) == CorrGT(d, c)

RECURSIVE SumSeq(_)
SumSeq(s) == IF s = << >> THEN 0 ELSE Head(s) + SumSeq(Tail(s))

(***************************************************************************)
(* estimate_delay, one lag of the search.  Deviations from the means are   *)
(* held times frames: da = frames * ref[i] - sum(ref).                     *)
(***************************************************************************)
\* max_lag without the clamp to half the frames
ClampedMaxLagNone(lag_ms, frames) == ms_to_samples(lag_ms, SampleRate)

ClampedMaxLag(lag_ms, frames) ==
    LET max_lag == ms_to_samples(lag_ms, SampleRate)
    IN  IF max_lag > frames \div 2 THEN frames \div 2 ELSE max_lag

Overlap(frames, lag) == frames - Abs(lag)

LagSkipped(frames, lag) == Overlap(frames, lag) < MinFrames

\* C indices (0-based) read from ref and tgt at this lag
StartA(lag) == IF lag >= 0 THEN 0 ELSE Abs(lag)
StartB(lag) == IF lag >= 0 THEN Abs(lag) ELSE 0

LagSums(ref, tgt, frames, lag) ==
    LET rs == SumSeq(ref)
        ts == SumSeq(tgt)
        da(i) == frames * ref[StartA(lag) + i + 1] - rs
        db(i) == frames * tgt[StartB(lag) + i + 1] - ts
        idx == 0..(Overlap(frames, lag) - 1)
    IN  Corr(SumSeq([k \in 1..Overlap(frames, lag) |-> da(k - 1) * db(k - 1)]),
             SumSeq([k \in 1..Overlap(frames, lag) |-> da(k - 1) * da(k - 1)]),
             SumSeq([k \in 1..Overlap(frames, lag) |-> db(k - 1) * db(k - 1)]))

\* denom = sqrt(sum_a2 * sum_b2) < 1e-8; the sums are in units of
\* 1 / (PreEmphDen * HannScale * frames)^2
DenomTooSmall(c, frames) ==
    LET u == Big(PreEmphDen * HannScale * frames)
        u4 == BigMul(BigMul(u, u), BigMul(u, u))
        e16 == << 0, 0, 0, 0, 1 >>
    IN  BigCmp(BigMul(BigMul(Big(c.a2), Big(c.b2)), e16), u4) = -1

\* the body of the lag loop keeping the last lag of a tie (>= for >)
SearchStepKeepLast(st, ref, tgt, frames, lag) ==
    IF LagSkipped(frames, lag) THEN st
    ELSE LET c == LagSums(ref, tgt, frames, lag)
         IN  IF DenomTooSmall(c, frames) THEN st
             ELSE IF ~CorrGT(st.best_corr, c)
                  THEN [best_corr |-> c, best_lag |-> lag,
                        lag_count |-> st.lag_count + 1]
                  ELSE [st EXCEPT !.lag_count = @ + 1]

\* the body of the lag loop: st = [best_corr, best_lag, lag_count]
SearchStep(st, ref, tgt, frames, lag) ==
    IF LagSkipped(frames, lag) THEN st
    ELSE LET c == LagSums(ref, tgt, frames, lag)
         IN  IF DenomTooSmall(c, frames) THEN st
             ELSE IF CorrGT(c, st.best_corr)
                  THEN [best_corr |-> c, best_lag |-> lag,
                        lag_count |-> st.lag_count + 1]
                  ELSE [st EXCEPT !.lag_count = @ + 1]

SearchInit == [best_corr |-> MinusOne, best_lag |-> 0, lag_count |-> 0]

\* delay_ms = best_lag * 1000 / sample_rate, as a fraction
DelayMs(best_lag) == [num |-> best_lag * 1000, den |-> SampleRate]

(***************************************************************************)
(* The host.  Threads: "ui" runs the button callbacks, update and the      *)
(* queued UI tasks, one at a time; "ref" is the audio thread that calls    *)
(* filter_audio; "tgt" is the audio thread of the target source, which     *)
(* calls capture_target while the callback is registered.                  *)
(***************************************************************************)
Threads == {"ui", "ref", "tgt"}
NoThread == "none"

\* obs_source_t pointers: the sources that exist, and NULL
Sources == {"A"}
NULL == "NULL"
\* names a settings object may carry; "B" names no existing source
Names == {"", "A", "B"}
obs_get_source_by_name(name) == IF name \in Sources THEN name ELSE NULL

\* a char* argument: a pointer into the heap (ptr > 0) or a string owned by
\* the caller (ptr = 0, str its content)
HeapName(p) == [ptr |-> p, str |-> ""]
OwnName(s) == [ptr |-> 0, str |-> s]

\* the audio each stream carries: frame k (from 1) of a signal
\* "prog": a signal over {-1, 0, 1} in which any three consecutive frames occur
\* once per period; "late": the same signal one frame later
Program == << 1, -1, 0, -1, 1, 0, -1, -1, 1, 1, 1, -1, 1, -1, -1, -1, 0, 0, 0,
              1, 0, 0, -1, 0, 1, 1, 0 >>
Sample(kind, k) ==
    CASE kind = "ramp"   -> k
      [] kind = "prog"   -> Program[((k - 1) % Len(Program)) + 1]
      [] kind = "silent" -> 0
      [] kind = "inv"    -> 0 - Program[((k - 1) % Len(Program)) + 1]
      [] kind = "late"   -> Program[((k + Len(Program) - 2) % Len(Program)) + 1]
Frames(kind, from, n) == [i \in 1..n |-> Sample(kind, from + i)]

\* texts: a message and the numbers formatted into it
Text(msg, val) == [msg |-> msg, val |-> val]
NullText == Text("(null)", << >>)
EmptyText == Text("", << >>)

NoSnap == << >>
MeasIdle ==
    [enough |-> FALSE, ref |-> NoSnap, tgt |-> NoSnap, rawref |-> NoSnap,
     rawtgt |-> NoSnap, frames |-> 0, max_lag |-> 0, lag |-> 0,
     st |-> SearchInit, delay_ms |-> DelayMs(0), corr |-> Corr(0, 1, 1),
     reason |-> "none"]
SrIdle == [delay_text |-> NullText, notes_text |-> NullText, timestamp |-> 0,
           queue |-> FALSE]
AppIdle == [valid |-> FALSE, delay_ms |-> DelayMs(0)]
AuIdle == [result |-> NullText, time_txt |-> NullText, notes_txt |-> NullText]

VARIABLES
    \* struct delay_meter_data
    target, target_name,
    ref_buffer, tgt_buffer, ref_pos, tgt_pos, ref_count, tgt_count,
    window_ms, max_lag_ms, debug_enabled,
    last_delay_text, last_time_text, last_notes, last_delay_ms,
    ui_update_pending, last_delay_valid,
    \* dm->lock: the thread holding it, or NoThread
    lock,
    \* the heap of target_name strings: address -> [live, str]; addresses
    \* are never reused, so a freed address stays recognisable
    heap,
    \* the host: registered capture callbacks per source, queued UI tasks,
    \* the texts shown in the properties view, the parent's sync offset,
    \* the clock, the signals of the two streams and the frames fed so far
    callbacks, ui_tasks, shown, sync_offset, now, signal, fed,
    \* control state: program counter and return label per thread, locals
    pc, ret, ctn, aud, sr, meas, app, au,
    \* the end of the run: the frames each stream feeds at most, the
    \* operations the ui thread may still start, the last clock reading
    lim,
    \* history (not program state): samples written per buffer, outcome of
    \* the last completed perform_measure, reads of freed memory, the last
    \* apply-offset that set the sync offset
    hist, last_meas, faults, last_apply

dmRing == << ref_buffer, tgt_buffer, ref_pos, tgt_pos, ref_count, tgt_count >>
dmConfig == << window_ms, max_lag_ms, debug_enabled >>
dmBinding == << target, target_name, heap, callbacks >>
dmResult == << last_delay_text, last_time_text, last_notes, last_delay_ms,
               ui_update_pending, last_delay_valid >>
hostVars == << ui_tasks, shown, sync_offset, now, signal, fed, lim >>
localVars == << ctn, aud, sr, meas, app, au >>
histVars == << hist, last_meas, faults, last_apply >>
vars == << dmRing, dmConfig, dmBinding, dmResult, lock, hostVars, pc, ret,
           localVars, histVars >>

(***************************************************************************)
(* Settings objects the host may hand to create and update.  The sliders   *)
(* of delay_meter_properties keep window_ms in 200..3000 and max_lag_ms in *)
(* 50..1500, but a settings object (a saved scene, a script) may carry any *)
(* integer: window_ms 100 is such a value.                                 *)
(***************************************************************************)
Settings(w, l, d, t) ==
    [window_ms |-> w, max_lag_ms |-> l, debug_enabled |-> d, target_source |-> t]

SettingsInputs ==
    { Settings(2500, 1500, FALSE, "A"),
      Settings(1500, 500, TRUE, "A"),
      Settings(100, 1500, FALSE, "A"),
      Settings(2500, 1500, FALSE, ""),
      Settings(2000, 1500, FALSE, "B") }

(***************************************************************************)
(* delay_meter_create: the state after construction from a settings        *)
(* object, connect_target included (no other thread runs yet).  With       *)
(* limits.pre > 0 and a bound target the run starts later: the streams     *)
(* have delivered pre.ref and pre.tgt frames since, and nothing else has   *)
(* happened.                                                               *)
(***************************************************************************)
InitState(s, sg, limits, href, htgt) ==
    LET zeros == [i \in 0..(capacity - 1) |-> 0]
        r0 == ring_write(zeros, capacity, 0, 0, href)
        t0 == ring_write(zeros, capacity, 0, 0, htgt)
    IN
    /\ target = obs_get_source_by_name(s.target_source)
    /\ target_name = IF s.target_source = "" THEN 0 ELSE 1
    /\ heap = IF s.target_source = "" THEN << >>
              ELSE << [live |-> TRUE, str |-> s.target_source,
                       by |-> NoThread] >>
    /\ callbacks = [x \in Sources |->
                      IF x = obs_get_source_by_name(s.target_source)
                      THEN 1 ELSE 0]
    /\ ref_buffer = r0.buffer /\ ref_pos = r0.pos /\ ref_count = r0.count
    /\ tgt_buffer = t0.buffer /\ tgt_pos = t0.pos /\ tgt_count = t0.count
    /\ window_ms = s.window_ms
    /\ max_lag_ms = s.max_lag_ms
    /\ debug_enabled = s.debug_enabled
    /\ last_delay_text = NullText
    /\ last_time_text = NullText
    /\ last_notes = NullText
    /\ last_delay_ms = DelayMs(0)
    /\ ui_update_pending = FALSE
    /\ last_delay_valid = FALSE
    /\ lock = NoThread
    /\ ui_tasks = 0
    /\ shown = [time_result |-> EmptyText,
                delay_result |-> Text("Ready...", << >>),
                notes |-> EmptyText]
    /\ sync_offset = DelayMs(0)
    /\ now = 0
    /\ signal = sg
    /\ fed = [ref |-> Len(href), tgt |-> Len(htgt)]
    /\ lim = [ref |-> Len(href) + limits.ref,
              tgt |-> Len(htgt) + limits.tgt,
              ops |-> limits.ops, clock |-> limits.clock]
    /\ pc = [t \in Threads |-> "idle"]
    /\ ret = [t \in Threads |-> "idle"]
    /\ ctn = [t \in Threads |-> OwnName("")]
    /\ aud = [t \in Threads |-> << >>]
    /\ sr = SrIdle
    /\ meas = MeasIdle
    /\ app = AppIdle
    /\ au = AuIdle
    /\ hist = [ref |-> href, tgt |-> htgt]
    /\ last_meas = [n |-> 0, ok |-> FALSE, reason |-> "none",
                    any_ok |-> FALSE, good_delay |-> DelayMs(0)]
    /\ faults = {}
    /\ last_apply = [n |-> 0, delay_ms |-> DelayMs(0), any_ok |-> FALSE,
                     good_delay |-> DelayMs(0)]

InitWith(settingsSet, signalSet, limits) ==
    \E s \in settingsSet, sg \in signalSet :
      LET bound == obs_get_source_by_name(s.target_source) # NULL
          preref == IF bound THEN limits.pre.ref ELSE 0
          pretgt == IF bound THEN limits.pre.tgt ELSE 0
      IN  InitState(s, sg, limits, Frames(sg.ref, 0, preref),
                    Frames(sg.tgt, 0, pretgt))

\* pthread_mutex_lock / pthread_mutex_unlock on dm->lock
CanLock(t) == lock = NoThread
Goto(t, l) == pc' = [pc EXCEPT ![t] = l]

(***************************************************************************)
(* Reading a string through a pointer.  A freed block is still addressed   *)
(* by every pointer that was not reset; what a read of it returns is not   *)
(* defined, so it may be any name.                                         *)
(***************************************************************************)
Dangling(p) == p # 0 /\ ~heap[p].live
ReadHeap(p) == IF heap[p].live THEN {heap[p].str} ELSE Names
\* the contents a thread may read through a name argument
ReadName(nm) == IF nm.ptr = 0 THEN {nm.str} ELSE ReadHeap(nm.ptr)
NameDangling(nm) == nm.ptr # 0 /\ Dangling(nm.ptr)
\* the record of thread t touching block p when it is freed: what it did,
\* and the thread that had freed the block
Fault(t, p, what) ==
    IF Dangling(p)
    THEN {[fault |-> what, thread |-> t, freed_by |-> heap[p].by]}
    ELSE {}
NameFault(t, nm, what) == IF nm.ptr = 0 THEN {} ELSE Fault(t, nm.ptr, what)

(***************************************************************************)
(* connect_target, run by thread t ("ui" from update, "ref" from           *)
(* filter_audio).  It takes no lock.                                       *)
(***************************************************************************)
\* line 351: same target already bound -> return
CtCheck(t) ==
    /\ pc[t] = "ct_check"
    /\ IF target # NULL /\ target_name # 0
       THEN \E a \in ReadHeap(target_name), b \in ReadName(ctn[t]) :
               /\ Goto(t, IF a = b THEN ret[t] ELSE "ct_release")
               /\ faults' = faults \cup Fault(t, target_name, "read")
                                   \cup NameFault(t, ctn[t], "read")
       ELSE /\ Goto(t, "ct_release")
            /\ faults' = faults
    /\ UNCHANGED << dmRing, dmConfig, dmBinding, dmResult, lock, hostVars, ret,
                    localVars, hist, last_meas, last_apply >>

\* lines 354-359: remove the callback from the prior target and release it
CtRelease(t) ==
    /\ pc[t] = "ct_release"
    /\ IF target # NULL
       THEN /\ callbacks' = [callbacks EXCEPT
                               ![target] = IF @ > 0 THEN @ - 1 ELSE 0]
            /\ target' = NULL
       ELSE UNCHANGED << callbacks, target >>
    /\ Goto(t, "ct_free")
    /\ UNCHANGED << dmRing, dmConfig, target_name, heap, dmResult, lock,
                    hostVars, ret, localVars, histVars >>

\* lines 363-365: bfree(dm->target_name); the pointer is left in place
CtFree(t) ==
    /\ pc[t] = "ct_free"
    /\ IF target_name # 0
       THEN /\ heap' = [heap EXCEPT ![target_name].live = FALSE,
                                     ![target_name].by = t]
            /\ faults' = faults \cup Fault(t, target_name, "free")
       ELSE UNCHANGED << heap, faults >>
    /\ Goto(t, "ct_dup")
    /\ UNCHANGED << dmRing, dmConfig, target, target_name, callbacks, dmResult,
                    lock, hostVars, ret, localVars, hist, last_meas,
                    last_apply >>

\* lines 366-369: target_name = name && *name ? bstrdup(name) : NULL
CtDup(t) ==
    /\ pc[t] = "ct_dup"
    /\ \E str \in ReadName(ctn[t]) :
          IF str # ""
          THEN /\ heap' = Append(heap, [live |-> TRUE, str |-> str,
                                        by |-> NoThread])
               /\ target_name' = Len(heap) + 1
               /\ Goto(t, "ct_bind")
          ELSE /\ target_name' = 0
               /\ heap' = heap
               /\ Goto(t, ret[t])
    /\ faults' = faults \cup NameFault(t, ctn[t], "read")
    /\ UNCHANGED << dmRing, dmConfig, target, callbacks, dmResult, lock,
                    hostVars, ret, localVars, hist, last_meas, last_apply >>

\* lines 371-380: look the source up, bind it and register capture_target
CtBind(t) ==
    /\ pc[t] = "ct_bind"
    /\ \E str \in (IF target_name = 0 THEN {""} ELSE ReadHeap(target_name)) :
          LET src == obs_get_source_by_name(str)
          IN  IF src = NULL
              THEN UNCHANGED << target, callbacks >>
              ELSE /\ target' = src
                   /\ callbacks' = [callbacks EXCEPT ![src] = @ + 1]
    /\ faults' = faults \cup Fault(t, target_name, "read")
    /\ Goto(t, ret[t])
    /\ UNCHANGED << dmRing, dmConfig, target_name, heap, dmResult, lock,
                    hostVars, ret, localVars, hist, last_meas, last_apply >>

(***************************************************************************)
(* delay_meter_filter_audio, on the thread "ref": n frames of the          *)
(* reference stream arrive.                                                *)
(***************************************************************************)
\* lines 516-523
FaStart(n) ==
    /\ pc["ref"] = "idle"
    /\ fed.ref + n <= lim.ref
    /\ aud' = [aud EXCEPT !["ref"] = Frames(signal.ref, fed.ref, n)]
    /\ fed' = [fed EXCEPT !.ref = @ + n]
    /\ IF target = NULL /\ target_name # 0
       THEN /\ ctn' = [ctn EXCEPT !["ref"] = HeapName(target_name)]
            /\ ret' = [ret EXCEPT !["ref"] = "fa_check"]
            /\ Goto("ref", "ct_check")
       ELSE /\ UNCHANGED << ctn, ret >>
            /\ Goto("ref", "fa_check")
    /\ UNCHANGED << dmRing, dmConfig, dmBinding, dmResult, lock, ui_tasks,
                    shown, sync_offset, now, signal, lim, sr, meas, app, au,
                    histVars >>

\* lines 525-527: without a target the frames are passed on unrecorded
FaCheck ==
    /\ pc["ref"] = "fa_check"
    /\ IF target = NULL
       THEN /\ Goto("ref", "idle")
            /\ aud' = [aud EXCEPT !["ref"] = << >>]
       ELSE /\ Goto("ref", "fa_lock")
            /\ aud' = aud
    /\ UNCHANGED << dmRing, dmConfig, dmBinding, dmResult, lock, hostVars, ret,
                    ctn, sr, meas, app, au, histVars >>

\* line 531
FaLock ==
    /\ pc["ref"] = "fa_lock"
    /\ CanLock("ref")
    /\ lock' = "ref"
    /\ Goto("ref", "fa_write")
    /\ UNCHANGED << dmRing, dmConfig, dmBinding, dmResult, hostVars, ret,
                    localVars, histVars >>

\* lines 532-533
FaWrite ==
    /\ pc["ref"] = "fa_write"
    /\ LET r == ring_write(ref_buffer, capacity, ref_pos, ref_count, aud["ref"])
       IN  /\ ref_buffer' = r.buffer
           /\ ref_pos' = r.pos
           /\ ref_count' = r.count
    /\ hist' = [hist EXCEPT !.ref = @ \o aud["ref"]]
    /\ aud' = [aud EXCEPT !["ref"] = << >>]
    /\ lock' = NoThread
    /\ Goto("ref", "idle")
    /\ UNCHANGED << tgt_buffer, tgt_pos, tgt_count, dmConfig, dmBinding,
                    dmResult, hostVars, ret, ctn, sr, meas, app, au, last_meas,
                    faults, last_apply >>

(***************************************************************************)
(* capture_target, on the thread "tgt": n frames of the target stream      *)
(* arrive while the callback is registered on a source.                    *)
(***************************************************************************)
\* lines 327-338
CapStart(n) ==
    /\ pc["tgt"] = "idle"
    /\ \E src \in Sources : callbacks[src] > 0
    /\ fed.tgt + n <= lim.tgt
    /\ aud' = [aud EXCEPT !["tgt"] = Frames(signal.tgt, fed.tgt, n)]
    /\ fed' = [fed EXCEPT !.tgt = @ + n]
    /\ Goto("tgt", "cap_lock")
    /\ UNCHANGED << dmRing, dmConfig, dmBinding, dmResult, lock, ui_tasks,
                    shown, sync_offset, now, signal, lim, ret, ctn, sr, meas,
                    app, au, histVars >>

\* line 340
CapLock ==
    /\ pc["tgt"] = "cap_lock"
    /\ CanLock("tgt")
    /\ lock' = "tgt"
    /\ Goto("tgt", "cap_write")
    /\ UNCHANGED << dmRing, dmConfig, dmBinding, dmResult, hostVars, ret,
                    localVars, histVars >>

\* lines 341-346
CapWrite ==
    /\ pc["tgt"] = "cap_write"
    /\ LET r == ring_write(tgt_buffer, capacity, tgt_pos, tgt_count, aud["tgt"])
       IN  /\ tgt_buffer' = r.buffer
           /\ tgt_pos' = r.pos
           /\ tgt_count' = r.count
    /\ hist' = [hist EXCEPT !.tgt = @ \o aud["tgt"]]
    /\ aud' = [aud EXCEPT !["tgt"] = << >>]
    /\ lock' = NoThread
    /\ Goto("tgt", "idle")
    /\ UNCHANGED << ref_buffer, ref_pos, ref_count, dmConfig, dmBinding,
                    dmResult, hostVars, ret, ctn, sr, meas, app, au, last_meas,
                    faults, last_apply >>

(***************************************************************************)
(* set_result, called on the ui thread with the two texts; back is the     *)
(* label the caller continues at.                                          *)
(***************************************************************************)
CallSetResult(delay_text, notes_text, back) ==
    /\ sr' = [delay_text |-> delay_text, notes_text |-> notes_text,
              timestamp |-> 0, queue |-> FALSE]
    /\ ret' = [ret EXCEPT !["ui"] = back]
    /\ Goto("ui", "sr_lock")

\* lines 266-272: the timestamp is read from the clock, which may have
\* advanced since it was last read; then the lock is taken
SrLock ==
    /\ pc["ui"] = "sr_lock"
    /\ CanLock("ui")
    /\ \E t \in {now, now + 1} :
          /\ t <= lim.clock
          /\ now' = t
          /\ sr' = [sr EXCEPT !.timestamp = t]
    /\ lock' = "ui"
    /\ Goto("ui", "sr_body")
    /\ UNCHANGED << dmRing, dmConfig, dmBinding, dmResult, ui_tasks, shown,
                    sync_offset, signal, fed, lim, ret, ctn, aud, meas, app,
                    au, histVars >>

\* set_result queuing a task whether or not one is pending
SrBodyAlwaysQueue ==
    /\ pc["ui"] = "sr_body"
    /\ last_delay_text' = sr.delay_text
    /\ last_time_text' = Text("time", << sr.timestamp >>)
    /\ last_notes' = sr.notes_text
    /\ last_delay_valid' = TRUE
    /\ ui_update_pending' = TRUE
    /\ sr' = [sr EXCEPT !.queue = TRUE]
    /\ lock' = NoThread
    /\ Goto("ui", "sr_queue")
    /\ UNCHANGED << dmRing, dmConfig, dmBinding, last_delay_ms, hostVars, ret,
                    ctn, aud, meas, app, au, histVars >>

\* lines 273-284: replace the three texts, set the valid flag, decide
\* whether a UI task must be queued, unlock
SrBody ==
    /\ pc["ui"] = "sr_body"
    /\ last_delay_text' = sr.delay_text
    /\ last_time_text' = Text("time", << sr.timestamp >>)
    /\ last_notes' = sr.notes_text
    /\ last_delay_valid' = TRUE
    /\ ui_update_pending' = TRUE
    /\ sr' = [sr EXCEPT !.queue = ~ui_update_pending]
    /\ lock' = NoThread
    /\ Goto("ui", "sr_queue")
    /\ UNCHANGED << dmRing, dmConfig, dmBinding, last_delay_ms, hostVars, ret,
                    ctn, aud, meas, app, au, histVars >>

\* lines 286-287: obs_queue_task(OBS_TASK_UI, apply_result_ui, dm, false)
SrQueue ==
    /\ pc["ui"] = "sr_queue"
    /\ ui_tasks' = IF sr.queue THEN ui_tasks + 1 ELSE ui_tasks
    /\ sr' = SrIdle
    /\ Goto("ui", ret["ui"])
    /\ UNCHANGED << dmRing, dmConfig, dmBinding, dmResult, lock, shown,
                    sync_offset, now, signal, fed, lim, ret, ctn, aud, meas,
                    app, au, histVars >>

(***************************************************************************)
(* apply_result_ui, a queued task run by the ui thread when it is idle.    *)
(***************************************************************************)
\* the task is taken from the queue; lines 290-299
AuStart ==
    /\ pc["ui"] = "idle"
    /\ ui_tasks > 0
    /\ ui_tasks' = ui_tasks - 1
    /\ Goto("ui", "au_lock")
    /\ UNCHANGED << dmRing, dmConfig, dmBinding, dmResult, lock, shown,
                    sync_offset, now, signal, fed, lim, ret, localVars,
                    histVars >>

\* line 300
AuLock ==
    /\ pc["ui"] = "au_lock"
    /\ CanLock("ui")
    /\ lock' = "ui"
    /\ Goto("ui", "au_body")
    /\ UNCHANGED << dmRing, dmConfig, dmBinding, dmResult, hostVars, ret,
                    localVars, histVars >>

\* apply_result_ui taking the notes from the view instead of a fresh copy
AuBodyOldNotes ==
    /\ pc["ui"] = "au_body"
    /\ ui_update_pending' = FALSE
    /\ au' = [result |-> last_delay_text, time_txt |-> last_time_text,
              notes_txt |-> shown.notes]
    /\ lock' = NoThread
    /\ Goto("ui", "au_show")
    /\ UNCHANGED << dmRing, dmConfig, dmBinding, last_delay_text,
                    last_time_text, last_notes, last_delay_ms,
                    last_delay_valid, hostVars, ret, ctn, aud, sr, meas, app,
                    histVars >>

\* lines 301-308: clear the pending flag, copy the three texts, unlock
AuBody ==
    /\ pc["ui"] = "au_body"
    /\ ui_update_pending' = FALSE
    /\ au' = [result |-> last_delay_text, time_txt |-> last_time_text,
              notes_txt |-> last_notes]
    /\ lock' = NoThread
    /\ Goto("ui", "au_show")
    /\ UNCHANGED << dmRing, dmConfig, dmBinding, last_delay_text,
                    last_time_text, last_notes, last_delay_ms,
                    last_delay_valid, hostVars, ret, ctn, aud, sr, meas, app,
                    histVars >>

\* lines 310-324: hand the copies to the properties view
AuShow ==
    /\ pc["ui"] = "au_show"
    /\ shown' = IF au.result = NullText THEN shown
                ELSE [time_result |-> IF au.time_txt = NullText THEN EmptyText
                                      ELSE au.time_txt,
                      delay_result |-> au.result,
                      notes |-> IF au.notes_txt = NullText THEN EmptyText
                                ELSE au.notes_txt]
    /\ au' = AuIdle
    /\ Goto("ui", "idle")
    /\ UNCHANGED << dmRing, dmConfig, dmBinding, dmResult, lock, ui_tasks,
                    sync_offset, now, signal, fed, lim, ret, ctn, aud, sr,
                    meas, app, histVars >>

(***************************************************************************)
(* delay_meter_update, on the ui thread, with a settings object.           *)
(***************************************************************************)
UseOp == lim' = [lim EXCEPT !.ops = @ - 1]

\* lines 383-395; connect_target follows
Update(s) ==
    /\ pc["ui"] = "idle"
    /\ lim.ops > 0
    /\ UseOp
    /\ window_ms' = s.window_ms
    /\ max_lag_ms' = s.max_lag_ms
    /\ debug_enabled' = s.debug_enabled
    /\ ctn' = [ctn EXCEPT !["ui"] = OwnName(s.target_source)]
    /\ ret' = [ret EXCEPT !["ui"] = "idle"]
    /\ Goto("ui", "ct_check")
    /\ UNCHANGED << dmRing, dmBinding, dmResult, lock, ui_tasks, shown,
                    sync_offset, now, signal, fed, aud, sr, meas, app, au,
                    histVars >>

(***************************************************************************)
(* perform_measure (measure_now_clicked), on the ui thread.                *)
(***************************************************************************)
\* a / b rounded to the nearest integer, halves away from zero (b > 0)
RoundDiv(a, b) ==
    IF a >= 0 THEN (2 * a + b) \div (2 * b)
              ELSE 0 - ((2 * (0 - a) + b) \div (2 * b))

\* "%.1f": a delay in tenths of a millisecond
Tenths(d) == RoundDiv(d.num * 10, d.den)

\* "%+6.1f ms (correlation: %.3f)": the correlation is carried unrounded
DelayText(delay_ms, corr) ==
    Text("delay", << Tenths(delay_ms), corr.ab, corr.a2, corr.b2 >>)

\* the note with "lags" and "leads" exchanged
NotesTextSwapped(delay_ms, name) ==
    IF delay_ms.num < 0 THEN Text("lags " \o name, << Tenths(delay_ms) >>)
    ELSE IF delay_ms.num > 0
         THEN Text("leads " \o name, << Tenths([delay_ms EXCEPT !.num = 0 - @]) >>)
         ELSE Text("aligned " \o name, << >>)

\* lines 438-447: the note names the direction
NotesText(delay_ms, name) ==
    IF delay_ms.num > 0 THEN Text("lags " \o name, << Tenths(delay_ms) >>)
    ELSE IF delay_ms.num < 0
         THEN Text("leads " \o name, << Tenths([delay_ms EXCEPT !.num = 0 - @]) >>)
         ELSE Text("aligned " \o name, << >>)

MsgNoTarget == Text("No target source", << >>)
MsgTooSmall == Text("Buffers too small", << >>)
MsgLowCorr == Text("Insufficient correlation - check audio levels and similarity", << >>)
NoteNoTarget == Text("Select a delayed source to compare against.", << >>)
NoteTooSmall == Text("Need more buffered audio from both reference and target before measuring.", << >>)
NoteLowCorr == Text("Insufficient correlation; ensure both sources carry similar program audio.", << >>)

\* lines 398-408: dm->target is read without the lock
PmStart ==
    /\ pc["ui"] = "idle"
    /\ lim.ops > 0
    /\ UseOp
    /\ IF target = NULL
       THEN /\ meas' = [MeasIdle EXCEPT !.reason = "NoTarget"]
            /\ CallSetResult(MsgNoTarget, NoteNoTarget, "pm_store_invalid")
       ELSE /\ meas' = MeasIdle
            /\ Goto("ui", "pm_lock")
            /\ UNCHANGED << sr, ret >>
    /\ UNCHANGED << dmRing, dmConfig, dmBinding, dmResult, lock, ui_tasks,
                    shown, sync_offset, now, signal, fed, ctn, aud, app, au,
                    histVars >>

\* line 410
PmLock ==
    /\ pc["ui"] = "pm_lock"
    /\ CanLock("ui")
    /\ lock' = "ui"
    /\ Goto("ui", "pm_counts")
    /\ UNCHANGED << dmRing, dmConfig, dmBinding, dmResult, hostVars, ret,
                    localVars, histVars >>

\* the count check passing when either buffer holds the minimum
PmCountsEither ==
    /\ pc["ui"] = "pm_counts"
    /\ lock' = NoThread
    /\ LET enough == ref_count >= MinFrames \/ tgt_count >= MinFrames
       IN  IF enough
           THEN /\ meas' = [meas EXCEPT !.enough = TRUE]
                /\ Goto("ui", "cr_lock")
                /\ UNCHANGED << sr, ret >>
           ELSE /\ meas' = [meas EXCEPT !.reason = "InsufficientData"]
                /\ CallSetResult(MsgTooSmall, NoteTooSmall, "pm_store_invalid")
    /\ UNCHANGED << dmRing, dmConfig, dmBinding, dmResult, hostVars, ctn, aud,
                    app, au, histVars >>

\* lines 414-422: both counts are compared with the minimum under the lock
PmCounts ==
    /\ pc["ui"] = "pm_counts"
    /\ lock' = NoThread
    /\ LET enough == ref_count >= MinFrames /\ tgt_count >= MinFrames
       IN  IF enough
           THEN /\ meas' = [meas EXCEPT !.enough = TRUE]
                /\ Goto("ui", "cr_lock")
                /\ UNCHANGED << sr, ret >>
           ELSE /\ meas' = [meas EXCEPT !.reason = "InsufficientData"]
                /\ CallSetResult(MsgTooSmall, NoteTooSmall, "pm_store_invalid")
    /\ UNCHANGED << dmRing, dmConfig, dmBinding, dmResult, hostVars, ctn, aud,
                    app, au, histVars >>

\* copy_recent, line 126
CrLock ==
    /\ pc["ui"] = "cr_lock"
    /\ CanLock("ui")
    /\ lock' = "ui"
    /\ Goto("ui", "cr_body")
    /\ UNCHANGED << dmRing, dmConfig, dmBinding, dmResult, hostVars, ret,
                    localVars, histVars >>

\* copy_recent returning with the lock still held
CrBodyKeepLock(alloc_ok) ==
    /\ pc["ui"] = "cr_body"
    /\ lock' = lock
    /\ LET frames == SnapshotFrames(ref_count, tgt_count, window_ms)
           rawref == RawCopy(ref_buffer, ref_pos, capacity, frames)
           rawtgt == RawCopy(tgt_buffer, tgt_pos, capacity, frames)
       IN  IF frames < MinFrames \/ ~alloc_ok
           THEN /\ meas' = [meas EXCEPT
                              !.reason = IF frames < MinFrames
                                         THEN "SnapshotTooShort"
                                         ELSE "AllocationFailure"]
                /\ CallSetResult(MsgLowCorr, NoteLowCorr, "pm_store_invalid")
           ELSE /\ meas' = [meas EXCEPT !.frames = frames,
                                        !.rawref = rawref,
                                        !.rawtgt = rawtgt,
                                        !.ref = Condition(rawref),
                                        !.tgt = Condition(rawtgt)]
                /\ Goto("ui", "ed_setup")
                /\ UNCHANGED << sr, ret >>
    /\ UNCHANGED << dmRing, dmConfig, dmBinding, dmResult, hostVars, ctn, aud,
                    app, au, histVars >>

\* copy_recent leaving by its early exit without unlocking
CrBodyLeak(alloc_ok) ==
    /\ pc["ui"] = "cr_body"
    /\ lock' = IF SnapshotFrames(ref_count, tgt_count, window_ms) < MinFrames
               THEN lock ELSE NoThread
    /\ LET frames == SnapshotFrames(ref_count, tgt_count, window_ms)
           rawref == RawCopy(ref_buffer, ref_pos, capacity, frames)
           rawtgt == RawCopy(tgt_buffer, tgt_pos, capacity, frames)
       IN  IF frames < MinFrames \/ ~alloc_ok
           THEN /\ meas' = [meas EXCEPT
                              !.reason = IF frames < MinFrames
                                         THEN "SnapshotTooShort"
                                         ELSE "AllocationFailure"]
                /\ CallSetResult(MsgLowCorr, NoteLowCorr, "pm_store_invalid")
           ELSE /\ meas' = [meas EXCEPT !.frames = frames,
                                        !.rawref = rawref,
                                        !.rawtgt = rawtgt,
                                        !.ref = Condition(rawref),
                                        !.tgt = Condition(rawtgt)]
                /\ Goto("ui", "ed_setup")
                /\ UNCHANGED << sr, ret >>
    /\ UNCHANGED << dmRing, dmConfig, dmBinding, dmResult, hostVars, ctn, aud,
                    app, au, histVars >>

\* copy_recent, lines 128-166 and its caller's lines 175-178: with too few
\* frames, or when an allocation fails, nothing is copied and
\* estimate_delay returns false; otherwise both buffers are copied and
\* conditioned.  The lock is released on every path.
CrBody(alloc_ok) ==
    /\ pc["ui"] = "cr_body"
    /\ lock' = NoThread
    /\ LET frames == SnapshotFrames(ref_count, tgt_count, window_ms)
           rawref == RawCopy(ref_buffer, ref_pos, capacity, frames)
           rawtgt == RawCopy(tgt_buffer, tgt_pos, capacity, frames)
       IN  IF frames < MinFrames \/ ~alloc_ok
           THEN /\ meas' = [meas EXCEPT
                              !.reason = IF frames < MinFrames
                                         THEN "SnapshotTooShort"
                                         ELSE "AllocationFailure"]
                /\ CallSetResult(MsgLowCorr, NoteLowCorr, "pm_store_invalid")
           ELSE /\ meas' = [meas EXCEPT !.frames = frames,
                                        !.rawref = rawref,
                                        !.rawtgt = rawtgt,
                                        !.ref = Condition(rawref),
                                        !.tgt = Condition(rawtgt)]
                /\ Goto("ui", "ed_setup")
                /\ UNCHANGED << sr, ret >>
    /\ UNCHANGED << dmRing, dmConfig, dmBinding, dmResult, hostVars, ctn, aud,
                    app, au, histVars >>

\* estimate_delay, lines 185-204
EdSetup ==
    /\ pc["ui"] = "ed_setup"
    /\ LET max_lag == ClampedMaxLag(max_lag_ms, meas.frames)
       IN  meas' = [meas EXCEPT !.max_lag = max_lag, !.lag = 0 - max_lag,
                                !.st = SearchInit]
    /\ Goto("ui", "ed_loop")
    /\ UNCHANGED << dmRing, dmConfig, dmBinding, dmResult, lock, hostVars, ret,
                    ctn, aud, sr, app, au, histVars >>

\* estimate_delay, lines 205-239: one pass of the lag loop
EdLoop ==
    /\ pc["ui"] = "ed_loop"
    /\ meas.lag <= meas.max_lag
    /\ meas' = [meas EXCEPT
                  !.st = SearchStep(meas.st, meas.ref, meas.tgt, meas.frames,
                                    meas.lag),
                  !.lag = @ + 1]
    /\ UNCHANGED << dmRing, dmConfig, dmBinding, dmResult, lock, hostVars, pc,
                    ret, ctn, aud, sr, app, au, histVars >>

\* estimate_delay, lines 241-257, and lines 458-459 of perform_measure
EdDone ==
    /\ pc["ui"] = "ed_loop"
    /\ meas.lag > meas.max_lag
    /\ IF CorrLT(meas.st.best_corr, Threshold)
       THEN /\ meas' = [meas EXCEPT !.reason = "LowConfidence",
                                    !.ref = NoSnap, !.tgt = NoSnap]
            /\ CallSetResult(MsgLowCorr, NoteLowCorr, "pm_store_invalid")
       ELSE /\ meas' = [meas EXCEPT !.delay_ms = DelayMs(meas.st.best_lag),
                                    !.corr = meas.st.best_corr,
                                    !.reason = "ok",
                                    !.ref = NoSnap, !.tgt = NoSnap]
            /\ Goto("ui", "pm_name_lock")
            /\ UNCHANGED << sr, ret >>
    /\ UNCHANGED << dmRing, dmConfig, dmBinding, dmResult, lock, hostVars, ctn,
                    aud, app, au, histVars >>

\* line 431
PmNameLock ==
    /\ pc["ui"] = "pm_name_lock"
    /\ CanLock("ui")
    /\ lock' = "ui"
    /\ Goto("ui", "pm_name")
    /\ UNCHANGED << dmRing, dmConfig, dmBinding, dmResult, hostVars, ret,
                    localVars, histVars >>

\* lines 432-449: copy the target name under the lock, format the texts
PmName ==
    /\ pc["ui"] = "pm_name"
    /\ lock' = NoThread
    /\ \E name \in (IF target_name = 0 THEN {"<target>"}
                    ELSE ReadHeap(target_name)) :
          CallSetResult(DelayText(meas.delay_ms, meas.corr),
                        NotesText(meas.delay_ms, name), "pm_store_ms")
    /\ faults' = faults \cup Fault("ui", target_name, "read")
    /\ UNCHANGED << dmRing, dmConfig, dmBinding, dmResult, hostVars, ctn, aud,
                    meas, app, au, hist, last_meas, last_apply >>

\* line 451, without the lock
PmStoreMs ==
    /\ pc["ui"] = "pm_store_ms"
    /\ last_delay_ms' = meas.delay_ms
    /\ Goto("ui", "pm_store_valid")
    /\ UNCHANGED << dmRing, dmConfig, dmBinding, last_delay_text,
                    last_time_text, last_notes, ui_update_pending,
                    last_delay_valid, lock, hostVars, ret, localVars,
                    histVars >>

\* lines 452-455, without the lock; perform_measure returns true
PmStoreValid ==
    /\ pc["ui"] = "pm_store_valid"
    /\ last_delay_valid' = TRUE
    /\ last_meas' = [n |-> last_meas.n + 1, ok |-> TRUE, reason |-> "ok",
                     any_ok |-> TRUE, good_delay |-> meas.delay_ms]
    /\ meas' = MeasIdle
    /\ Goto("ui", "idle")
    /\ UNCHANGED << dmRing, dmConfig, dmBinding, last_delay_text,
                    last_time_text, last_notes, last_delay_ms,
                    ui_update_pending, lock, hostVars, ret, ctn, aud, sr, app,
                    au, hist, faults, last_apply >>

\* a failed measurement that also empties both buffers
PmStoreInvalidFlush ==
    /\ pc["ui"] = "pm_store_invalid"
    /\ last_delay_valid' = FALSE
    /\ ref_pos' = 0 /\ tgt_pos' = 0 /\ ref_count' = 0 /\ tgt_count' = 0
    /\ last_meas' = [last_meas EXCEPT !.n = @ + 1, !.ok = FALSE,
                                      !.reason = meas.reason]
    /\ meas' = MeasIdle
    /\ Goto("ui", "idle")
    /\ UNCHANGED << ref_buffer, tgt_buffer, dmConfig, dmBinding, last_delay_text,
                    last_time_text, last_notes, last_delay_ms,
                    ui_update_pending, lock, hostVars, ret, ctn, aud, sr, app,
                    au, hist, faults, last_apply >>

\* lines 406-407, 420-421 and 460-461, without the lock; perform_measure
\* returns false
PmStoreInvalid ==
    /\ pc["ui"] = "pm_store_invalid"
    /\ last_delay_valid' = FALSE
    /\ last_meas' = [last_meas EXCEPT !.n = @ + 1, !.ok = FALSE,
                                      !.reason = meas.reason]
    /\ meas' = MeasIdle
    /\ Goto("ui", "idle")
    /\ UNCHANGED << dmRing, dmConfig, dmBinding, last_delay_text,
                    last_time_text, last_notes, last_delay_ms,
                    ui_update_pending, lock, hostVars, ret, ctn, aud, sr, app,
                    au, hist, faults, last_apply >>

(***************************************************************************)
(* apply_sync_offset_clicked, on the ui thread.                            *)
(***************************************************************************)
MsgNoRecent == Text(" No recent measurement", << >>)
MsgNoParent == Text(" No parent source", << >>)
MsgParentGone == Text(" Parent unavailable", << >>)
NoteNoRecent == Text("Run Measure Now before applying offset.", << >>)
NoteNoParent == Text("Cannot apply offset without a parent source.", << >>)
NoteParentGone == Text("Parent source vanished before applying offset.", << >>)
NoteApplied == Text("Sync Offset updated on reference source.", << >>)

\* what obs_filter_get_parent and obs_source_get_ref may answer
ParentStates == {"ok", "none", "vanished"}

\* llround(delay_ms * 1000000.0), held in microseconds
OffsetOf(delay_ms) == RoundDiv(delay_ms.num * 1000, delay_ms.den)

\* lines 476-484
AsLock ==
    /\ pc["ui"] = "idle"
    /\ lim.ops > 0
    /\ UseOp
    /\ CanLock("ui")
    /\ lock' = "ui"
    /\ Goto("ui", "as_read")
    /\ UNCHANGED << dmRing, dmConfig, dmBinding, dmResult, ui_tasks, shown,
                    sync_offset, now, signal, fed, ret, localVars, histVars >>

\* lines 485-492: the flag and the delay are read under the lock
AsRead ==
    /\ pc["ui"] = "as_read"
    /\ lock' = NoThread
    /\ app' = [valid |-> last_delay_valid, delay_ms |-> last_delay_ms]
    /\ IF last_delay_valid
       THEN /\ Goto("ui", "as_apply")
            /\ UNCHANGED << sr, ret >>
       ELSE CallSetResult(MsgNoRecent, NoteNoRecent, "as_done")
    /\ UNCHANGED << dmRing, dmConfig, dmBinding, dmResult, hostVars, ctn, aud,
                    meas, au, histVars >>

\* lines 494-512: the parent's sync offset is set from the delay read
AsApply(parent) ==
    /\ pc["ui"] = "as_apply"
    /\ IF parent = "ok"
       THEN /\ sync_offset' = OffsetOf(app.delay_ms)
            /\ last_apply' = [n |-> last_apply.n + 1,
                              delay_ms |-> app.delay_ms,
                              any_ok |-> last_meas.any_ok,
                              good_delay |-> last_meas.good_delay]
            /\ CallSetResult(Text("Applied", << Tenths(app.delay_ms) >>),
                             NoteApplied, "as_done")
       ELSE /\ UNCHANGED << sync_offset, last_apply >>
            /\ CallSetResult(IF parent = "none" THEN MsgNoParent
                             ELSE MsgParentGone,
                             IF parent = "none" THEN NoteNoParent
                             ELSE NoteParentGone, "as_done")
    /\ UNCHANGED << dmRing, dmConfig, dmBinding, dmResult, lock, ui_tasks,
                    shown, now, signal, fed, lim, ctn, aud, meas, app, au,
                    hist, last_meas, faults >>

\* return true
AsDone ==
    /\ pc["ui"] = "as_done"
    /\ app' = AppIdle
    /\ Goto("ui", "idle")
    /\ UNCHANGED << dmRing, dmConfig, dmBinding, dmResult, lock, hostVars, ret,
                    ctn, aud, sr, meas, au, histVars >>

(***************************************************************************)
(* The ring buffers alone: whole writes and whole snapshots, one after     *)
(* another, as ring_write and copy_recent compute them.                    *)
(***************************************************************************)
Chunks == 1..MaxChunk

\* ring_write on the reference buffer with the next n frames of its stream
RingWriteRef(n) ==
    /\ fed.ref + n <= lim.ref
    /\ LET src == Frames(signal.ref, fed.ref, n)
           r == ring_write(ref_buffer, capacity, ref_pos, ref_count, src)
       IN  /\ ref_buffer' = r.buffer
           /\ ref_pos' = r.pos
           /\ ref_count' = r.count
           /\ hist' = [hist EXCEPT !.ref = @ \o src]
    /\ fed' = [fed EXCEPT !.ref = @ + n]
    /\ UNCHANGED << tgt_buffer, tgt_pos, tgt_count, dmConfig, dmBinding,
                    dmResult, lock, ui_tasks, shown, sync_offset, now, signal,
                    lim, pc, ret, localVars, last_meas, faults, last_apply >>

\* the target write moving the reference buffer's cursor instead of its own
RingWriteTgtRefCursor(n) ==
    /\ fed.tgt + n <= lim.tgt
    /\ LET src == Frames(signal.tgt, fed.tgt, n)
           r == ring_write(tgt_buffer, capacity, ref_pos, tgt_count, src)
       IN  /\ tgt_buffer' = r.buffer
           /\ ref_pos' = r.pos
           /\ tgt_count' = r.count
           /\ hist' = [hist EXCEPT !.tgt = @ \o src]
    /\ fed' = [fed EXCEPT !.tgt = @ + n]
    /\ UNCHANGED << ref_buffer, tgt_pos, ref_count, dmConfig, dmBinding,
                    dmResult, lock, ui_tasks, shown, sync_offset, now, signal,
                    lim, pc, ret, localVars, last_meas, faults, last_apply >>

\* ring_write on the target buffer with the next n frames of its stream
RingWriteTgt(n) ==
    /\ fed.tgt + n <= lim.tgt
    /\ LET src == Frames(signal.tgt, fed.tgt, n)
           r == ring_write(tgt_buffer, capacity, tgt_pos, tgt_count, src)
       IN  /\ tgt_buffer' = r.buffer
           /\ tgt_pos' = r.pos
           /\ tgt_count' = r.count
           /\ hist' = [hist EXCEPT !.tgt = @ \o src]
    /\ fed' = [fed EXCEPT !.tgt = @ + n]
    /\ UNCHANGED << ref_buffer, ref_pos, ref_count, dmConfig, dmBinding,
                    dmResult, lock, ui_tasks, shown, sync_offset, now, signal,
                    lim, pc, ret, localVars, last_meas, faults, last_apply >>

\* copy_recent with a window of w milliseconds: the copies, raw and
\* conditioned, are left in meas
RingSnapshot(w) ==
    /\ window_ms' = w
    /\ LET frames == SnapshotFrames(ref_count, tgt_count, w)
           rawref == RawCopy(ref_buffer, ref_pos, capacity, frames)
           rawtgt == RawCopy(tgt_buffer, tgt_pos, capacity, frames)
       IN  IF frames < MinFrames
           THEN meas' = MeasIdle
           ELSE meas' = [MeasIdle EXCEPT !.frames = frames,
                                         !.rawref = rawref,
                                         !.rawtgt = rawtgt,
                                         !.ref = Condition(rawref),
                                         !.tgt = Condition(rawtgt)]
    /\ UNCHANGED << dmRing, max_lag_ms, debug_enabled, dmBinding, dmResult,
                    lock, hostVars, pc, ret, ctn, aud, sr, app, au, histVars >>

WindowInputs == {1500, 2500, 5000}

NextRing ==
    \/ \E n \in Chunks : RingWriteRef(n)
    \/ \E n \in Chunks : RingWriteTgt(n)
    \/ \E w \in WindowInputs : RingSnapshot(w)

InitRing ==
    InitWith({ Settings(2500, 1500, FALSE, "A") },
             { [ref |-> "ramp", tgt |-> "prog"] },
             [ref |-> capacity + ExtraWrites, tgt |-> capacity + ExtraWrites,
              ops |-> 0, clock |-> 0, pre |-> [ref |-> 0, tgt |-> 0]])

SpecRing == InitRing /\ [][NextRing]_vars

(***************************************************************************)
(* The filter in its host: the ui thread and the two audio threads.        *)
(***************************************************************************)
MeasureSteps ==
    \/ PmStart \/ PmLock \/ PmCounts \/ CrLock
    \/ \E alloc_ok \in BOOLEAN : CrBody(alloc_ok)
    \/ EdSetup \/ EdLoop \/ EdDone \/ PmNameLock \/ PmName
    \/ PmStoreMs \/ PmStoreValid \/ PmStoreInvalid

SetResultSteps == SrLock \/ SrBody \/ SrQueue

UiTaskSteps == AuStart \/ AuLock \/ AuBody \/ AuShow

ApplySteps ==
    \/ AsLock \/ AsRead \/ AsDone
    \/ \E parent \in ParentStates : AsApply(parent)

ConnectSteps ==
    \E t \in {"ui", "ref"} :
        CtCheck(t) \/ CtRelease(t) \/ CtFree(t) \/ CtDup(t) \/ CtBind(t)

RefSteps == (\E n \in Chunks : FaStart(n)) \/ FaCheck \/ FaLock \/ FaWrite

TgtSteps == (\E n \in Chunks : CapStart(n)) \/ CapLock \/ CapWrite

\* every operation, update and connect_target included
Next ==
    \/ MeasureSteps \/ SetResultSteps \/ UiTaskSteps \/ ApplySteps
    \/ (\E s \in SettingsInputs : Update(s)) \/ ConnectSteps
    \/ RefSteps \/ TgtSteps

\* the operations of a run in which the settings are not changed
NextMeasure ==
    \/ MeasureSteps \/ SetResultSteps \/ UiTaskSteps \/ ApplySteps
    \/ RefSteps \/ TgtSteps

\* operations of the ui thread in one run, and the last reading of the clock
MaxOps == 2
MaxClock == 1
\* frames fed to each stream in one run of the threaded specifications
MaxFed == 2

\* frames fed to each stream in a run in which the settings change
BindFed == 1

Init ==
    InitWith(SettingsInputs, { [ref |-> "prog", tgt |-> "prog"] },
             [ref |-> BindFed, tgt |-> BindFed, ops |-> MaxOps, clock |-> 0,
              pre |-> [ref |-> MinFrames, tgt |-> MinFrames]])

Spec == Init /\ [][Next]_vars

\* settings whose target exists or is empty: connect_target is not called
\* again after create
SteadySettings == { s \in SettingsInputs : s.target_source \in Sources \cup {""} }

\* how a run starts: the frames the two streams have delivered (none,
\* enough on the reference side only, just enough on both sides, one more
\* than that) and the audio the target carries
Scenario(preref, pretgt, tgt_kind) ==
    [pre |-> [ref |-> preref, tgt |-> pretgt],
     signal |-> [ref |-> "prog", tgt |-> tgt_kind]]

Scenarios ==
    { Scenario(0, 0, "prog"),
      Scenario(MinFrames, 0, "prog"),
      Scenario(MinFrames, MinFrames, "prog"),
      Scenario(MinFrames, MinFrames, "silent"),
      Scenario(MinFrames + 1, MinFrames + 1, "late") }

InitMeasure ==
    \E sc \in Scenarios :
        InitWith(SteadySettings, { sc.signal },
                 [ref |-> MaxFed, tgt |-> MaxFed, ops |-> MaxOps,
                  clock |-> MaxClock, pre |-> sc.pre])

SpecMeasure == InitMeasure /\ [][NextMeasure]_vars

\* measurements alone, with the audio threads writing, under fair
\* scheduling: a call on the ui thread and a queued UI task go on whenever
\* they can, an audio callback that was entered runs to its end; when the
\* next callback arrives is left open
LiveOps == 1
LiveFed == 1

UiLiveSteps == MeasureSteps \/ SetResultSteps \/ UiTaskSteps
RefCallSteps == FaCheck \/ FaLock \/ FaWrite
TgtCallSteps == CapLock \/ CapWrite

NextLive == UiLiveSteps \/ RefSteps \/ TgtSteps

InitLive ==
    \E sc \in Scenarios :
        InitWith(SteadySettings, { sc.signal },
                 [ref |-> LiveFed, tgt |-> LiveFed, ops |-> LiveOps,
                  clock |-> 0, pre |-> sc.pre])

\* the steps of the ui thread outside the lag loop of estimate_delay
UiCallSteps ==
    \/ PmStart \/ PmLock \/ PmCounts \/ CrLock
    \/ \E alloc_ok \in BOOLEAN : CrBody(alloc_ok)
    \/ EdSetup \/ PmNameLock \/ PmName
    \/ PmStoreMs \/ PmStoreValid \/ PmStoreInvalid
    \/ SetResultSteps \/ UiTaskSteps

\* the ui thread is in the lag loop, where EdLoop or EdDone can always be
\* taken, and it takes one of them: a pass moves lag up by one, the exit
\* leaves the loop
InSearchLoop == pc["ui"] = "ed_loop"
SearchLoopStep ==
    /\ InSearchLoop
    /\ \/ pc'["ui"] = "ed_loop" /\ meas'.lag = meas.lag + 1
       \/ pc'["ui"] # "ed_loop"

\* weak fairness of EdLoop \/ EdDone, written out: the loop takes no lock
\* and waits for nothing, so the thread that is in it goes on
SearchFairness == []<>(~InSearchLoop) \/ []<><<SearchLoopStep>>_vars

Fairness ==
    /\ WF_vars(UiCallSteps)
    /\ SearchFairness
    /\ WF_vars(RefCallSteps)
    /\ WF_vars(TgtCallSteps)

SpecLive == InitLive /\ [][NextLive]_vars /\ Fairness

\* the search on its own: one measurement on buffers that hold
\* SearchFrames frames each, the reference a click that has just ended or
\* the programme, the target any sequence of samples of amplitude up to
\* SearchAmp; no audio arrives meanwhile
SearchFrames == 6
SearchAmp == 1

Click == [i \in 1..SearchFrames |-> IF i = 1 THEN 1 ELSE 0]
RefInputs == { Click, Frames("prog", 0, SearchFrames) }
TgtInputs == [1..SearchFrames -> (0 - SearchAmp)..SearchAmp]

SearchSettings ==
    SteadySettings \cup { Settings(MAX_WINDOW_MS, MAX_LAG_MS, FALSE, "A") }

InitSearch ==
    \E s \in SearchSettings, href \in RefInputs, htgt \in TgtInputs :
        InitState(s, [ref |-> "silent", tgt |-> "silent"],
                  [ref |-> 0, tgt |-> 0, ops |-> 1, clock |-> 0],
                  href, htgt)

NextSearch == MeasureSteps \/ SetResultSteps \/ UiTaskSteps

SpecSearch == InitSearch /\ [][NextSearch]_vars

(***************************************************************************)
(* Properties.                                                             *)
(***************************************************************************)
\* the last n elements of a sequence
LastN(h, n) == SubSeq(h, Len(h) - n + 1, Len(h))

\* the slots of a buffer from slot start onwards, n of them, wrapping
SlotsFrom(buffer, start, n) == [i \in 1..n |-> buffer[(start + (i - 1)) % capacity]]

\* C1.  Snapshot correctness: for either buffer and every frame count N
\* from the minimum to the buffer's count, the raw copy copy_recent makes
\* of N frames is the last N samples written to that buffer, in write
\* order; and the raw copies of the last snapshot taken, while nothing was
\* written since, are the last meas.frames samples written.
C1_SnapshotIsLastWritten ==
    /\ \A n \in MinFrames..ref_count :
          RawCopy(ref_buffer, ref_pos, capacity, n) = LastN(hist.ref, n)
    /\ \A n \in MinFrames..tgt_count :
          RawCopy(tgt_buffer, tgt_pos, capacity, n) = LastN(hist.tgt, n)
    /\ ref_count = Min(Len(hist.ref), capacity)
    /\ tgt_count = Min(Len(hist.tgt), capacity)

\* a snapshot of at least the minimum was taken after both buffers wrapped,
\* with the two cursors at different slots
C1_Witness ==
    /\ meas.frames >= MinFrames
    /\ Len(hist.ref) > capacity /\ Len(hist.tgt) > capacity
    /\ ref_pos # tgt_pos /\ ref_pos # 0
    /\ ref_pos < meas.frames
    /\ meas.rawref = LastN(hist.ref, meas.frames)
    /\ meas.rawtgt = LastN(hist.tgt, meas.frames)

\* C2.  Ring eviction: once more than capacity samples were written to a
\* buffer that started empty, its count is the capacity, the slots read
\* from the write cursor onwards are the last capacity samples written,
\* oldest first, and (reference stream, whose samples are all different)
\* none of the samples written before those is still in the buffer.
C2_Eviction ==
    /\ Len(hist.ref) > capacity =>
          /\ ref_count = capacity
          /\ SlotsFrom(ref_buffer, ref_pos, capacity) = LastN(hist.ref, capacity)
          /\ \A j \in 1..(Len(hist.ref) - capacity) :
                \A i \in 0..(capacity - 1) : ref_buffer[i] # hist.ref[j]
    /\ Len(hist.tgt) > capacity =>
          /\ tgt_count = capacity
          /\ SlotsFrom(tgt_buffer, tgt_pos, capacity) = LastN(hist.tgt, capacity)

\* capacity + k samples, k > 1, were written to each buffer
C2_Witness ==
    /\ Len(hist.ref) > capacity + 1
    /\ Len(hist.tgt) > capacity + 1
    /\ ref_count = capacity /\ tgt_count = capacity

\* the ui thread is inside set_result
InSetResult == pc["ui"] \in {"sr_lock", "sr_body", "sr_queue"}

\* labels at which the ui thread reads or writes a field of the result record
ResultAccess ==
    {"sr_body", "au_body", "as_read", "pm_store_ms", "pm_store_valid",
     "pm_store_invalid"}

\* C3.  Result record under the lock: in every reachable state a thread
\* that is at a read or an update of last_delay_valid, last_delay_ms or the
\* three result texts, in perform_measure, set_result, apply_result_ui or
\* apply_sync_offset_clicked, holds dm->lock.
C3_ResultUnderLock == pc["ui"] \in ResultAccess => lock = "ui"

\* C4.  configure is safe with the reference write path: under every
\* interleaving of delay_meter_update, delay_meter_filter_audio and
\* perform_measure no thread reads or frees target_name after another
\* thread freed it, and the capture callback is registered at most once on
\* a source.
C4_ConnectSafe ==
    /\ \A f \in faults : f.freed_by = f.thread
    /\ \A src \in Sources : callbacks[src] <= 1

\* C5.  Apply-offset uses the last valid delay: whenever
\* apply_sync_offset_clicked has set a sync offset, some measurement had
\* succeeded before and the delay applied is the delay of the most recent
\* measurement that succeeded.
C5_ApplyUsesLastValid ==
    last_apply.n > 0 =>
        /\ last_apply.any_ok
        /\ last_apply.delay_ms = last_apply.good_delay

\* C6.  The retained valid flag: whenever the ui thread is between
\* requests, after any sequence of measure and apply-offset requests,
\* last_delay_valid is true only if the most recent measurement succeeded;
\* it is false before the first successful measurement.
C6_ValidOnlyAfterSuccess ==
    (pc["ui"] = "idle" /\ last_delay_valid) => (last_meas.n > 0 /\ last_meas.ok)

\* labels of perform_measure from the snapshot onwards
PastCounts ==
    {"cr_lock", "cr_body", "ed_setup", "ed_loop", "pm_name_lock", "pm_name",
     "pm_store_ms", "pm_store_valid"}

C7_State ==
    /\ meas.reason = "InsufficientData" =>
          /\ ~meas.enough
          /\ meas.frames = 0 /\ meas.rawref = NoSnap /\ meas.rawtgt = NoSnap
          /\ meas.ref = NoSnap /\ meas.tgt = NoSnap
          /\ meas.st = SearchInit
          /\ \/ pc["ui"] = "pm_store_invalid"
             \/ /\ InSetResult
                /\ ret["ui"] = "pm_store_invalid"
                /\ sr.delay_text = MsgTooSmall
    /\ (pc["ui"] \in PastCounts \/ (InSetResult /\ ret["ui"] = "pm_store_ms"))
          => meas.enough

C7_Step ==
    /\ (pc["ui"] = "pm_counts" /\ pc'["ui"] # "pm_counts") =>
          IF ref_count < MinFrames \/ tgt_count < MinFrames
          THEN meas'.reason = "InsufficientData" /\ ~meas'.enough
          ELSE meas'.enough
    /\ meas.reason = "InsufficientData" =>
          \/ meas'.reason = "InsufficientData" /\ last_meas' = last_meas
          \/ /\ pc'["ui"] = "idle"
             /\ ~last_delay_valid'
             /\ last_delay_text' = MsgTooSmall
             /\ last_meas'.n = last_meas.n + 1
             /\ ~last_meas'.ok
             /\ last_meas'.reason = "InsufficientData"

\* C7.  Insufficient data: when perform_measure, with a target bound, finds
\* ref_count or tgt_count below the minimum at its count check, it reports
\* "Buffers too small", returns false with last_delay_valid false and the
\* reason InsufficientData, and reaches neither the snapshot nor the
\* correlation search.
C7_InsufficientData == []C7_State /\ [][C7_Step]_vars

\* a measurement ended with InsufficientData although the reference buffer
\* held the minimum: the target buffer did not
C7_Witness ==
    /\ pc["ui"] = "idle"
    /\ target # NULL
    /\ last_meas.n > 0 /\ last_meas.reason = "InsufficientData"
    /\ ~last_meas.ok /\ ~last_delay_valid
    /\ last_delay_text = MsgTooSmall
    /\ ref_count >= MinFrames /\ tgt_count < MinFrames /\ tgt_count > 0

\* C8.  Error classification: a snapshot that fails because fewer than the
\* minimum of frames are available is reported as InsufficientData
\* ("Buffers too small"); "Insufficient correlation" is reported only when
\* the search ran and its best correlation was below the threshold.
C8_ErrorClassification ==
    /\ (InSetResult /\ meas.reason = "SnapshotTooShort")
          => sr.delay_text = MsgTooSmall
    /\ (InSetResult /\ sr.delay_text = MsgLowCorr)
          => meas.reason = "LowConfidence"

\* the private copies as copy_recent conditions them
SnapRef == Condition(meas.rawref)
SnapTgt == Condition(meas.rawtgt)

\* the lags that estimate_delay evaluates on the private copies, each with
\* its correlation; the other lags are skipped for their overlap or their
\* denominator
EvaluatedCorrs ==
    LET kept == { k \in (0 - meas.max_lag)..meas.max_lag :
                    ~LagSkipped(meas.frames, k) }
        all == { [lag |-> k, c |-> LagSums(meas.ref, meas.tgt, meas.frames, k)] :
                    k \in kept }
    IN  { e \in all : ~DenomTooSmall(e.c, meas.frames) }

\* 0.6
SixTenths == Corr(MinCorrNum, MinCorrDen, MinCorrDen)

\* c is the correlation of the evaluated lag best, and none is greater
MaxAt(ev, c, best) ==
    /\ [lag |-> best, c |-> c] \in ev
    /\ \A e \in ev : ~CorrGT(e.c, c)

\* perform_measure is past a search that succeeded
OnSuccessPath ==
    \/ pc["ui"] \in {"pm_name_lock", "pm_name", "pm_store_ms", "pm_store_valid"}
    \/ InSetResult /\ ret["ui"] = "pm_store_ms"

\* the search has run through all lags
SearchDone == pc["ui"] = "ed_loop" /\ meas.lag > meas.max_lag

C9_State ==
    /\ OnSuccessPath =>
          /\ meas.reason = "ok"
          /\ ~CorrLT(meas.corr, SixTenths)
          /\ InSetResult => sr.delay_text = DelayText(meas.delay_ms, meas.corr)
    /\ meas.reason = "ok" => OnSuccessPath
    /\ meas.reason = "LowConfidence" =>
          \/ pc["ui"] = "pm_store_invalid"
          \/ /\ InSetResult
             /\ ret["ui"] = "pm_store_invalid"
             /\ sr.delay_text = MsgLowCorr

C9_Step ==
    /\ (SearchDone /\ pc'["ui"] # "ed_loop") =>
          LET ev == EvaluatedCorrs
          IN  /\ meas.st.lag_count = Cardinality(ev)
              /\ IF \E e \in ev : ~CorrLT(e.c, SixTenths)
                 THEN /\ meas'.reason = "ok"
                      /\ pc'["ui"] = "pm_name_lock"
                      /\ \E e \in ev :
                            /\ MaxAt(ev, meas'.corr, e.lag)
                            /\ meas'.delay_ms = DelayMs(e.lag)
                 ELSE /\ meas'.reason = "LowConfidence"
                      /\ InSetResult'
    /\ (OnSuccessPath /\ pc'["ui"] # "idle") => meas' = meas
    /\ (meas.reason = "LowConfidence" \/ meas'.reason = "LowConfidence") =>
          last_delay_ms' = last_delay_ms
    /\ meas.reason = "LowConfidence" =>
          \/ meas'.reason = "LowConfidence" /\ last_meas' = last_meas
          \/ /\ pc'["ui"] = "idle"
             /\ ~last_delay_valid'
             /\ ~last_meas'.ok
             /\ last_meas'.reason = "LowConfidence"
    /\ (last_meas'.n # last_meas.n /\ last_meas'.ok) =>
          /\ pc["ui"] = "pm_store_valid"
          /\ last_delay_valid'
          /\ last_delay_ms' = meas.delay_ms
          /\ last_meas'.good_delay = meas.delay_ms

\* C9.  Threshold enforcement: perform_measure ends with a valid result
\* only if some evaluated lag has a correlation of at least 0.6, and the
\* confidence and the delay it reports are those of a lag of maximum
\* correlation; when every lag is skipped or the maximum is below 0.6 the
\* result is invalid, "Insufficient correlation" is reported and
\* last_delay_ms keeps its value.
C9_Threshold == []C9_State /\ [][C9_Step]_vars

\* a second measurement failed on its correlation, with lags evaluated,
\* after a first had succeeded with a delay other than 0, which is retained
C9_Witness ==
    /\ pc["ui"] = "idle"
    /\ last_meas.n = MaxOps /\ last_meas.reason = "LowConfidence"
    /\ last_meas.any_ok /\ ~last_delay_valid
    /\ last_delay_ms = last_meas.good_delay /\ last_delay_ms.num # 0

\* labels of the correlation search
InSearch == pc["ui"] \in {"ed_setup", "ed_loop"}

C10_Step ==
    (InSearch /\ pc'["ui"] = "ed_loop") =>
        /\ meas'.rawref = meas.rawref /\ meas'.rawtgt = meas.rawtgt
        /\ meas'.ref = meas.ref /\ meas'.tgt = meas.tgt
        /\ meas'.frames = meas.frames
        /\ dmRing' # dmRing => meas' = meas
        /\ meas' # meas => dmRing' = dmRing /\ lock' = lock

\* C10.  No lock across the search: in every state where the ui thread is
\* in estimate_delay's search the lock is not held by it, so that the
\* audio threads take it and write; and the search reads its private
\* copies, which no write changes.
C10_SearchLockFree ==
    /\ [](InSearch => (lock # "ui" /\ meas.ref = SnapRef /\ meas.tgt = SnapTgt))
    /\ [][C10_Step]_vars

\* in the middle of the lag loop both audio threads have completed a write
\* since the snapshot, and the reference thread holds the lock for another
C10_Witness ==
    /\ pc["ui"] = "ed_loop"
    /\ meas.lag > 0 - meas.max_lag /\ meas.lag <= meas.max_lag
    /\ lock = "ref"
    /\ RawCopy(ref_buffer, ref_pos, capacity, meas.frames) # meas.rawref
    /\ RawCopy(tgt_buffer, tgt_pos, capacity, meas.frames) # meas.rawtgt

\* the ui thread is inside perform_measure, set_result calls included
InMeasure ==
    \/ pc["ui"] \in {"pm_lock", "pm_counts", "cr_lock", "cr_body", "ed_setup",
                     "ed_loop", "pm_name_lock", "pm_name", "pm_store_ms",
                     "pm_store_valid", "pm_store_invalid"}
    \/ InSetResult /\ ret["ui"] \in {"pm_store_ms", "pm_store_invalid"}

\* the reasons perform_measure fails with, and the text it reports for each
FailureText(reason) ==
    CASE reason = "NoTarget" -> MsgNoTarget
      [] reason = "InsufficientData" -> MsgTooSmall
      [] reason \in {"LowConfidence", "SnapshotTooShort", "AllocationFailure"}
            -> MsgLowCorr

C11_Step ==
    /\ ((pc'["ui"] # pc["ui"] \/ meas' # meas) /\ (InMeasure \/ InMeasure')) =>
          /\ UNCHANGED << ref_buffer, tgt_buffer, ref_pos, tgt_pos, ref_count,
                          tgt_count >>
          /\ UNCHANGED << window_ms, max_lag_ms, debug_enabled >>
          /\ UNCHANGED << target, target_name, heap, callbacks >>
    /\ (last_meas'.n # last_meas.n /\ ~last_meas'.ok) =>
          /\ last_meas'.reason \in {"NoTarget", "InsufficientData",
                                    "LowConfidence", "SnapshotTooShort",
                                    "AllocationFailure"}
          /\ ~last_delay_valid'
          /\ last_delay_text' = FailureText(last_meas'.reason)
          /\ last_delay_text'.msg # ""
          /\ last_notes'.msg # ""

\* C11.  A failing measurement changes nothing but the result: every step
\* perform_measure takes leaves both ring buffers (contents, cursors,
\* counts), the configuration and the target binding as they are, and a
\* call that fails (no target, too little data, low correlation, failed
\* snapshot) ends with last_delay_valid false and a non-empty reason text.
C11_FailureLeavesState == [][C11_Step]_vars

\* a measurement failed on its correlation while the audio threads had
\* filled and kept writing both buffers; the buffers hold what was written
C11_Witness ==
    /\ pc["ui"] = "idle"
    /\ last_meas.n > 0 /\ ~last_meas.ok /\ last_meas.reason = "LowConfidence"
    /\ ~last_delay_valid /\ last_delay_text = MsgLowCorr
    /\ ref_count > MinFrames /\ tgt_count > MinFrames
    /\ RawCopy(ref_buffer, ref_pos, capacity, ref_count) = LastN(hist.ref, ref_count)
    /\ RawCopy(tgt_buffer, tgt_pos, capacity, tgt_count) = LastN(hist.tgt, tgt_count)

\* C12.  Writes never drop frames: whenever a write path is between
\* calls, every frame its callbacks have delivered so far has been
\* appended to its buffer, whether or not a target is bound: the samples
\* written are the samples delivered, in order.
C12_NoFrameDropped ==
    /\ pc["ref"] = "idle" => hist.ref = Frames(signal.ref, 0, fed.ref)
    /\ pc["tgt"] = "idle" => hist.tgt = Frames(signal.tgt, 0, fed.tgt)

\* the names a note may carry
NoteNames == Names \cup {"<target>"}

\* the note of a successful measurement says word
NoteSays(word) == \E name \in NoteNames : sr.notes_text.msg = word \o name

\* C13.  Delay and direction: for a valid measurement delay_ms is
\* best_lag * 1000 / sample_rate, with the sign of best_lag, and the note
\* handed to set_result says "lags" exactly when best_lag > 0, "leads"
\* exactly when best_lag < 0 and "aligned" exactly when best_lag = 0.
C13_DelayAndDirection ==
    OnSuccessPath =>
      LET best_lag == meas.st.best_lag
      IN  /\ meas.delay_ms.num = best_lag * 1000
          /\ meas.delay_ms.den = SampleRate
          /\ meas.delay_ms.num * SampleRate > 0 <=> best_lag > 0
          /\ meas.delay_ms.num * SampleRate < 0 <=> best_lag < 0
          /\ InSetResult =>
                /\ NoteSays("lags ") <=> best_lag > 0
                /\ NoteSays("leads ") <=> best_lag < 0
                /\ NoteSays("aligned ") <=> best_lag = 0
                /\ sr.notes_text.val =
                      IF best_lag = 0 THEN << >>
                      ELSE << RoundDiv(Abs(best_lag) * 1000 * 10, SampleRate) >>

\* a measurement found the target ahead of the reference and is reporting it
C13_Witness ==
    /\ InSetResult /\ ret["ui"] = "pm_store_ms"
    /\ meas.st.best_lag < 0
    /\ NoteSays("leads ")
    /\ meas.delay_ms.num < 0

\* labels at which a thread asks for dm->lock, and at which it holds it
LockRequest ==
    [ui |-> {"pm_lock", "cr_lock", "pm_name_lock", "sr_lock", "au_lock"},
     ref |-> {"fa_lock"}, tgt |-> {"cap_lock"}]
LockHeld ==
    [ui |-> {"pm_counts", "cr_body", "pm_name", "sr_body", "au_body", "as_read"},
     ref |-> {"fa_write"}, tgt |-> {"cap_write"}]

C14_State ==
    \A t \in Threads :
        /\ pc[t] \in LockRequest[t] => lock # t
        /\ lock = t <=> pc[t] \in LockHeld[t]

\* control flow of perform_measure around its one call of set_result
C14_Step ==
    /\ (InMeasure /\ pc'["ui"] = "idle") =>
          pc["ui"] \in {"pm_store_valid", "pm_store_invalid"}
    /\ (pc'["ui"] \in {"pm_store_ms", "pm_store_invalid"}
           /\ pc'["ui"] # pc["ui"]) =>
          /\ pc["ui"] = "sr_queue"
          /\ last_delay_text' = last_delay_text
    /\ (InMeasure' /\ pc'["ui"] = "sr_lock" /\ pc["ui"] # "sr_lock") =>
          pc["ui"] \in {"idle", "pm_counts", "cr_body", "ed_loop", "pm_name"}
    /\ pc["ui"] \in {"pm_store_ms", "pm_store_valid", "pm_store_invalid"} =>
          pc'["ui"] \in {pc["ui"], "pm_store_valid", "idle"}
    /\ (InMeasure /\ InSetResult) => (InSetResult' \/ pc'["ui"] = ret["ui"])

\* C14.  Termination and locking of a measurement: under fair scheduling
\* and with the audio threads writing, every call of perform_measure
\* returns; on every path it calls set_result once, after which it only
\* stores the flag and returns; a thread that took dm->lock releases it,
\* on the early exits of copy_recent too; and no thread asks for the lock
\* while it holds it.
C14_MeasureTerminates ==
    /\ []C14_State
    /\ [][C14_Step]_vars
    /\ InMeasure ~> pc["ui"] = "idle"
    /\ \A t \in Threads : (lock = t) ~> (lock # t)

\* a measurement has returned with success and the audio threads, which
\* wrote meanwhile, have delivered all their frames
C14_Witness ==
    /\ pc["ui"] = "idle" /\ lock = NoThread
    /\ last_meas.n = LiveOps /\ last_meas.ok
    /\ fed.ref = lim.ref /\ fed.tgt = lim.tgt
    /\ fed.ref > MinFrames
    /\ pc["ref"] = "idle" /\ pc["tgt"] = "idle"

\* C15.  Configuration bounds: after delay_meter_create and after every
\* delay_meter_update, window_ms lies in [MIN_WINDOW_MS, MAX_WINDOW_MS] and
\* max_lag_ms in [MIN_LAG_MS, MAX_LAG_MS], whatever the settings carry.
C15_ConfigBounds ==
    /\ window_ms \in MIN_WINDOW_MS..MAX_WINDOW_MS
    /\ max_lag_ms \in MIN_LAG_MS..MAX_LAG_MS

\* slot of the oldest of the count samples a buffer holds
OldestSlot(pos, count) == (pos + capacity - count) % capacity

C16_State ==
    /\ ref_count \in 0..capacity /\ ref_pos \in 0..(capacity - 1)
    /\ tgt_count \in 0..capacity /\ tgt_pos \in 0..(capacity - 1)
    /\ ref_count <= Len(hist.ref) /\ tgt_count <= Len(hist.tgt)
    /\ SlotsFrom(ref_buffer, OldestSlot(ref_pos, ref_count), ref_count)
          = LastN(hist.ref, ref_count)
    /\ SlotsFrom(tgt_buffer, OldestSlot(tgt_pos, tgt_count), tgt_count)
          = LastN(hist.tgt, tgt_count)

C16_Step ==
    /\ ref_count' >= ref_count
    /\ tgt_count' >= tgt_count
    /\ hist'.ref # hist.ref =>
          UNCHANGED << tgt_buffer, tgt_pos, tgt_count >>
    /\ hist'.tgt # hist.tgt =>
          UNCHANGED << ref_buffer, ref_pos, ref_count >>
    /\ UNCHANGED hist =>
          UNCHANGED << ref_buffer, ref_pos, ref_count,
                       tgt_buffer, tgt_pos, tgt_count >>

\* C16.  Ring invariant: under any interleaving of reference writes,
\* target writes and snapshots, each buffer has count <= capacity and its
\* write cursor below capacity, its count never decreases, the count
\* samples written to it last are the slots read from
\* (cursor - count) mod capacity onwards, oldest first, and a write to one
\* buffer leaves cursor, count and contents of the other as they were (a
\* snapshot leaves both).
C16_RingInvariant == []C16_State /\ [][C16_Step]_vars

\* the reference buffer has wrapped and stands mid-buffer while the target
\* buffer is partly filled, and a snapshot was taken
C16_Witness ==
    /\ Len(hist.ref) > capacity /\ ref_pos # 0
    /\ tgt_count > 0 /\ tgt_count < capacity
    /\ OldestSlot(tgt_pos, tgt_count) = 0
    /\ OldestSlot(ref_pos, ref_count) = ref_pos
    /\ meas.frames >= MinFrames

\* the ui thread takes one pass of the lag loop
LoopPass == pc["ui"] = "ed_loop" /\ pc'["ui"] = "ed_loop" /\ meas' # meas

C17_State ==
    pc["ui"] = "ed_loop" =>
        /\ meas.frames >= MinFrames
        /\ Len(meas.ref) = meas.frames /\ Len(meas.tgt) = meas.frames
        /\ meas.st.best_lag \in (0 - meas.max_lag)..meas.max_lag
        /\ meas.frames - Abs(meas.st.best_lag) >= MinFrames
        /\ meas.lag \in (0 - meas.max_lag)..(meas.max_lag + 1)

C17_Step ==
    /\ (pc["ui"] = "ed_setup" /\ pc'["ui"] = "ed_loop") =>
          /\ meas'.max_lag = Min(ms_to_samples(max_lag_ms, SampleRate),
                                 meas.frames \div 2)
          /\ meas'.lag = 0 - meas'.max_lag
    /\ LoopPass =>
          /\ meas.lag <= meas.max_lag
          /\ meas'.lag = meas.lag + 1
          /\ meas.frames - Abs(meas.lag) >= 0
          /\ IF meas.frames - Abs(meas.lag) < MinFrames
             THEN meas'.st = meas.st
             ELSE /\ \A i \in 0..(Overlap(meas.frames, meas.lag) - 1) :
                        /\ StartA(meas.lag) + i \in 0..(meas.frames - 1)
                        /\ StartB(meas.lag) + i \in 0..(meas.frames - 1)
                  /\ \/ meas'.st.lag_count = meas.st.lag_count + 1
                     \/ /\ meas'.st = meas.st
                        /\ DenomTooSmall(LagSums(meas.ref, meas.tgt,
                                                 meas.frames, meas.lag),
                                         meas.frames)
    /\ (pc["ui"] = "ed_loop" /\ pc'["ui"] # "ed_loop") =>
          meas.lag = meas.max_lag + 1

\* C17.  Effective lag range and bounds: with at least the minimum of
\* frames, the search clamps max_lag to
\* min(ms_to_samples(max_lag_ms), frames / 2); it goes through the lags
\* -max_lag..max_lag once each and evaluates exactly those with
\* frames - |lag| at least the minimum, the others leaving the search state
\* as it was, so that none of them is ever best_lag; and every index an
\* evaluated lag reads from the two snapshots lies in 0..frames-1.
C17_LagRange == []C17_State /\ [][C17_Step]_vars

\* a search is over in which the clamp to frames / 2 cut max_lag down, the
\* outermost lags were skipped, the others evaluated, and a lag other than
\* 0 is the best
C17_Witness ==
    /\ pc["ui"] = "ed_loop" /\ meas.lag = meas.max_lag + 1
    /\ meas.max_lag = meas.frames \div 2
    /\ meas.max_lag < ms_to_samples(max_lag_ms, SampleRate)
    /\ meas.frames - meas.max_lag < MinFrames
    /\ meas.st.lag_count > 1
    /\ meas.st.best_lag # 0

\* the evaluated lags whose correlation no evaluated lag exceeds
MaxLags ==
    LET ev == EvaluatedCorrs
    IN  { e.lag : e \in { x \in ev : \A y \in ev : ~CorrGT(y.c, x.c) } }

\* the search is over and estimate_delay is about to return true
SearchSucceeds == SearchDone /\ ~CorrLT(meas.st.best_corr, SixTenths)

\* C18.  Tie-breaking in the lag search: the best_lag that estimate_delay
\* returns is an evaluated lag of maximum correlation, best_corr is its
\* correlation, and when several lags reach the maximum it is the first of
\* them in the scan order -max_lag..max_lag, that is the lowest lag that
\* reaches the maximum; the delay returned is the one of best_lag.
C18_TieKeepsFirst ==
    /\ SearchSucceeds =>
          /\ meas.st.best_lag \in MaxLags
          /\ [lag |-> meas.st.best_lag, c |-> meas.st.best_corr]
                \in EvaluatedCorrs
          /\ \A l \in MaxLags : meas.st.best_lag <= l
    /\ pc["ui"] = "pm_name_lock" =>
          /\ meas.delay_ms = DelayMs(meas.st.best_lag)
          /\ meas.corr = meas.st.best_corr

\* C18 as stated: the lag kept among those that reach the maximum is the
\* one of smallest magnitude
C18_TieKeepsSmallest ==
    SearchSucceeds =>
        /\ meas.st.best_lag \in MaxLags
        /\ \A l \in MaxLags : Abs(meas.st.best_lag) <= Abs(l)

\* a search ends with success in which three lags reach the maximum, one
\* of them of smaller magnitude than the lag kept
C18_Witness ==
    /\ SearchSucceeds
    /\ Cardinality(MaxLags) = 3
    /\ \E l \in MaxLags : Abs(l) < Abs(meas.st.best_lag)
    /\ \E l \in MaxLags : l = 0 - meas.st.best_lag

\* the three result texts of the filter, as the properties view shows them
ResultTexts ==
    [time_result |-> last_time_text, delay_result |-> last_delay_text,
     notes |-> last_notes]

\* an apply_result_ui task is on its way: set_result is about to queue it,
\* it is queued, or it has started and has not yet cleared the flag
TaskOutstanding ==
    \/ pc["ui"] = "sr_queue" /\ sr.queue
    \/ ui_tasks > 0
    \/ pc["ui"] \in {"au_lock", "au_body"}

C19_State ==
    /\ ui_tasks \in {0, 1}
    /\ ui_update_pending <=> TaskOutstanding
    /\ (pc["ui"] = "sr_queue" /\ sr.queue) => ui_tasks = 0
    /\ pc["ui"] \in {"au_lock", "au_body"} => ui_tasks = 0
    /\ (~ui_update_pending /\ pc["ui"] # "au_show"
           /\ last_delay_text # NullText) => shown = ResultTexts
    /\ pc["ui"] = "au_show" => au.result = last_delay_text

C19_Step ==
    /\ ResultTexts' # ResultTexts =>
          /\ pc["ui"] = "sr_body"
          /\ last_delay_text' = sr.delay_text
          /\ last_notes' = sr.notes_text
          /\ last_time_text' = Text("time", << sr.timestamp >>)
          /\ ui_update_pending'
    /\ shown' # shown =>
          /\ pc["ui"] = "au_show"
          /\ shown' = ResultTexts
    /\ ui_tasks' > ui_tasks => (pc["ui"] = "sr_queue" /\ ui_tasks = 0)

CopiedTexts ==
    [time_result |-> au.time_txt, delay_result |-> au.result,
     notes |-> au.notes_txt]

C20_State ==
    /\ pc["ui"] = "au_show" => CopiedTexts = ResultTexts
    /\ pc["ui"] # "au_show" => au = AuIdle
    /\ (last_delay_text = NullText) <=> (last_notes = NullText)
    /\ (last_delay_text = NullText) <=> (last_time_text = NullText)

C20_Step ==
    /\ (au' # au /\ au' # AuIdle) =>
          /\ pc["ui"] = "au_body" /\ lock = "ui"
          /\ CopiedTexts' = ResultTexts
          /\ UNCHANGED << last_delay_text, last_time_text, last_notes >>
    /\ (last_delay_text' # last_delay_text \/ last_time_text' # last_time_text
           \/ last_notes' # last_notes) =>
          /\ pc["ui"] = "sr_body" /\ lock = "ui"
          /\ ResultTexts' = [time_result |-> Text("time", << sr.timestamp >>),
                             delay_result |-> sr.delay_text,
                             notes |-> sr.notes_text]
    /\ shown' # shown =>
          /\ pc["ui"] = "au_show" /\ lock # "ui"
          /\ shown' = CopiedTexts
          /\ au' = AuIdle

====
